---- MODULE Spec2Model ----
(***************************************************************************)
(* A model of massage-csv.ts: the CSV codec (parseCsvLine, toCsvLine), the *)
(* row transformer (transformRow), the feed materializer (processCsvFile,  *)
(* main) and the snapshot differ (findPreviousFeedFile,                    *)
(* extractDiscussionIds, compareFeedsAndFindRemoved); and of the polling   *)
(* loop of redash-query.ts (RedashQueryExecutor.pollJobCompletion).        *)
(*                                                                         *)
(* A JavaScript string is a sequence of one-character strings, so that     *)
(* scanning, trimming, splitting, quoting and pattern matching are         *)
(* computed as the code computes them.  The file system is a function from *)
(* the paths that exist to the text stored there.                          *)
(***************************************************************************)
EXTENDS Naturals, Integers, Sequences, FiniteSets, TLC

VARIABLES
  fs,        \* the file system: [path -> text], DOMAIN fs = the files that exist
  runs,      \* number of invocations of the script so far
  argv,      \* the arguments and injected I/O fault of the last invocation
  exitCode,  \* exit status of the last invocation
  ioLog,     \* the file system calls of the last invocation, in call order
  stdout,    \* what the last invocation reported to the operator
  input,     \* argument of the function applied alone; the column order drawn
  result,    \* what the functions applied alone returned, in call order
  maxAttempts,  \* pollJobCompletion: its parameter maxAttempts
  attempts,     \* pollJobCompletion: its local variable attempts
  pc,           \* pollJobCompletion: where the call is
  caught,       \* pollJobCompletion: the error its catch block holds
  requests,     \* pollJobCompletion: its requests and sleeps, in call order
  outcome       \* pollJobCompletion: how the call ended

pollVars == <<maxAttempts, attempts, pc, caught, requests, outcome>>

vars == <<fs, runs, argv, exitCode, ioLog, stdout, input, result,
          maxAttempts, attempts, pc, caught, requests, outcome>>

\* No error was logged.
None == "none"

\* No path, no match, no header: undefined, null and "" are all falsy.
NoPath == <<>>

\* A count the invocation did not report.
Unreported == 0 - 1

\* No call of pollJobCompletion is under way.
PollAtRest ==
  /\ maxAttempts = 0
  /\ attempts = 0
  /\ pc = "idle"
  /\ caught = None
  /\ requests = <<>>
  /\ outcome = None

\* ------------------------------------------------------------------ bounds

\* Longest field of a row drawn for the codec.
MaxFieldLen == 2

\* Most fields in a row drawn for the codec.
MaxFields == 2

\* Most invocations of the script in one behaviour.
MaxRuns == 3

\* Longest line drawn for the decoder alone.
MaxLineLen == 4

\* Most data lines of a file drawn for extractDiscussionIds alone.
MaxDataLines == 2

\* Largest maxAttempts pollJobCompletion is called with.
MaxPolls == 3

\* ------------------------------------------------------ strings and arrays

Range(s) == {s[i] : i \in 1..Len(s)}

Min(S) == CHOOSE x \in S : \A y \in S : x <= y

Max(S) == 0 - Min({0 - x : x \in S})

\* The white space String.prototype.trim removes, among the characters used.
IsWhiteSpace(c) == c \in {" ", "\t", "\n", "\r"}

\* String.prototype.trim
trim(s) ==
  LET keep == {i \in 1..Len(s) : ~IsWhiteSpace(s[i])}
  IN  IF keep = {} THEN <<>> ELSE SubSeq(s, Min(keep), Max(keep))

\* String.prototype.includes, for a one-character needle
includes(s, c) == \E i \in 1..Len(s) : s[i] = c

\* Array.prototype.indexOf, zero-based, -1 when absent
indexOf(arr, x) ==
  LET hits == {i \in 1..Len(arr) : arr[i] = x}
  IN  IF hits = {} THEN -1 ELSE Min(hits) - 1

\* arr[i] || dflt, for a zero-based index i: an index out of range reads
\* undefined and the empty string is falsy, so both give the default.
ValueOr(arr, i, dflt) ==
  IF i >= 0 /\ i < Len(arr) /\ arr[i + 1] # <<>> THEN arr[i + 1] ELSE dflt

\* The first position of c in s (one-based), 0 when absent.
FirstAt(s, c) ==
  LET hits == {i \in 1..Len(s) : s[i] = c}
  IN  IF hits = {} THEN 0 ELSE Min(hits)

\* String.prototype.split, for a one-character separator: "" splits to [""].
RECURSIVE split(_, _)
split(s, sep) ==
  IF FirstAt(s, sep) = 0 THEN <<s>>
  ELSE <<SubSeq(s, 1, FirstAt(s, sep) - 1)>>
         \o split(SubSeq(s, FirstAt(s, sep) + 1, Len(s)), sep)

\* Array.prototype.join
RECURSIVE join(_, _)
join(arr, sep) ==
  IF arr = <<>> THEN <<>>
  ELSE IF Len(arr) = 1 THEN arr[1]
  ELSE arr[1] \o sep \o join(Tail(arr), sep)

\* value.replace(/"/g, '""')
RECURSIVE doubleQuotes(_)
doubleQuotes(s) ==
  IF FirstAt(s, "\"") = 0 THEN s
  ELSE SubSeq(s, 1, FirstAt(s, "\"")) \o <<"\"">>
         \o doubleQuotes(SubSeq(s, FirstAt(s, "\"") + 1, Len(s)))

\* ------------------------------------------------------------ Tabular Codec
\* A loop body that takes every comma for a separator
\* (a faulty parseCsvChar).
parseCsvCharSplitAll(st, char) ==
  IF char = "\"" THEN [st EXCEPT !.inQuotes = ~@]
  ELSE IF char = ","
       THEN [st EXCEPT !.result = Append(@, trim(st.current)), !.current = <<>>]
  ELSE [st EXCEPT !.current = Append(@, char)]

\* One pass of the loop of parseCsvLine, on character char: st holds the
\* loop's variables result, current and inQuotes.
parseCsvChar(st, char) ==
  IF char = "\"" THEN [st EXCEPT !.inQuotes = ~@]
  ELSE IF char = "," /\ ~st.inQuotes
       THEN [st EXCEPT !.result = Append(@, trim(st.current)), !.current = <<>>]
  ELSE [st EXCEPT !.current = Append(@, char)]

\* The loop of parseCsvLine over line[lo..hi] (one-based), in order, from the
\* variables st: the variables after it.  The range is walked by halves, the
\* first half before the second, and st is evaluated on entry.
RECURSIVE parseCsvLoop(_, _, _, _)
parseCsvLoop(line, lo, hi, st) ==
  IF lo > hi \/ st.inQuotes \notin BOOLEAN THEN st
  ELSE IF lo = hi THEN parseCsvChar(st, line[lo])
  ELSE parseCsvLoop(line, ((lo + hi) \div 2) + 1, hi,
                    parseCsvLoop(line, lo, (lo + hi) \div 2, st))

\* The variables of parseCsvLine after its loop.
parseCsvScan(line) ==
  parseCsvLoop(line, 1, Len(line),
               [result |-> <<>>, current |-> <<>>, inQuotes |-> FALSE])

\* The array parseCsvLine returns once its loop has ended with variables st:
\* the last field is pushed.
parseCsvEnd(st) == Append(st.result, trim(st.current))

parseCsvLine(line) == parseCsvEnd(parseCsvScan(line))
\* An encoder that never quotes a value (a faulty quoteValue).
quoteValueNever(value) == value

\* The quoting of one value in toCsvLine.
quoteValue(value) ==
  IF includes(value, ",") \/ includes(value, "\"") \/ includes(value, "\n")
  THEN <<"\"">> \o doubleQuotes(value) \o <<"\"">>
  ELSE value

toCsvLine(values) ==
  join([i \in 1..Len(values) |-> quoteValue(values[i])], <<",">>)

\* ------------------------------------------------------------------ numbers
\* A JavaScript number is modelled exactly, as num/den with den a power of
\* ten, or NaN.  The model is exact for the scores the inputs below hold:
\* decimal literals whose value and whose product with the scale factor are
\* binary fractions of a few bits (0.5, 0.25, 1.5, 2, ...), which IEEE doubles
\* represent and multiply without rounding.  Exponents and Infinity are not in
\* the alphabet of the inputs.

Digits == <<"0", "1", "2", "3", "4", "5", "6", "7", "8", "9">>

IsDigit(c) == c \in Range(Digits)

DigitValue(c) == (CHOOSE i \in 1..Len(Digits) : Digits[i] = c) - 1

NaN == [nan |-> TRUE, neg |-> FALSE, num |-> 0, den |-> 1]

RECURSIVE Pow10(_)
Pow10(k) == IF k = 0 THEN 1 ELSE 10 * Pow10(k - 1)

RECURSIVE DigitsToNat(_)
DigitsToNat(ds) ==
  IF ds = <<>> THEN 0
  ELSE 10 * DigitsToNat(SubSeq(ds, 1, Len(ds) - 1)) + DigitValue(ds[Len(ds)])

\* Number of consecutive digits of s from position i (one-based) on.
DigitRun(s, i) ==
  LET stop == {j \in i..Len(s) : ~IsDigit(s[j])}
  IN  IF stop = {} THEN (IF i > Len(s) THEN 0 ELSE Len(s) - i + 1)
      ELSE Min(stop) - i

\* The number read from t, which starts with neither white space nor, from
\* position b on, a sign: n1 digits, then n2 digits after a '.'.
decimalOf(t, b, n1, n2) ==
  IF n1 + n2 = 0 THEN NaN
  ELSE [nan |-> FALSE, neg |-> t[1] = "-",
        num |-> DigitsToNat(SubSeq(t, b, b + n1 - 1)
                              \o SubSeq(t, b + n1 + 1, b + n1 + n2)),
        den |-> Pow10(n2)]

\* The number read from t after the n1 digits that start at position b.
decimalFrom(t, b, n1) ==
  decimalOf(t, b, n1,
            IF b + n1 <= Len(t) /\ t[b + n1] = "."
            THEN DigitRun(t, b + n1 + 1) ELSE 0)

\* The number read from t, whose digits start at position b.
decimalAt(t, b) == decimalFrom(t, b, DigitRun(t, b))

\* The number read from t, which does not start with white space.
decimalPrefix(t) ==
  decimalAt(t, IF t # <<>> /\ t[1] \in {"-", "+"} THEN 2 ELSE 1)

\* s without its leading white space
trimStart(s) ==
  LET lead == {i \in 1..Len(s) : ~IsWhiteSpace(s[i])}
  IN  IF lead = {} THEN <<>> ELSE SubSeq(s, Min(lead), Len(s))

\* parseFloat: leading white space is skipped, then the longest prefix that
\* is a decimal literal (sign, digits, '.', digits) is read; NaN without one.
parseFloat(s) == decimalPrefix(trimStart(s))

\* number * k, for a natural k
Times(v, k) == IF v.nan THEN v ELSE [v EXCEPT !.num = @ * k]

RECURSIVE NatToString(_)
NatToString(n) ==
  IF n < 10 THEN <<Digits[n + 1]>>
  ELSE NatToString(n \div 10) \o <<Digits[(n % 10) + 1]>>

\* The digits of f/den after the decimal point, without trailing zeros.
RECURSIVE FractionDigits(_, _)
FractionDigits(f, den) ==
  IF f = 0 THEN <<>>
  ELSE <<Digits[(f \div (den \div 10)) + 1]>>
         \o FractionDigits(f % (den \div 10), den \div 10)

\* Number.prototype.toString, for NaN and for magnitudes written without an
\* exponent; -0 is written "0".
NumberToString(v) ==
  IF v.nan THEN <<"N", "a", "N">>
  ELSE LET frac == FractionDigits(v.num % v.den, v.den)
       IN  (IF v.neg /\ v.num # 0 THEN <<"-">> ELSE <<>>)
             \o NatToString(v.num \div v.den)
             \o (IF frac = <<>> THEN <<>> ELSE <<".">> \o frac)

\* ---------------------------------------------------------- Row Transformer

Update == <<"u","p","d","a","t","e">>

Workspace == <<"w","o","r","k","s","p","a","c","e">>

\* The multiplier of transformRow.
ScaleFactor == 10000

\* A transformer that maps entitytype ignoring surrounding white space
\* (a faulty transformRow).
transformRowTrimmed(inputRow) ==
  [discussionId        |-> inputRow.discussionid,
   discussionType      |-> inputRow.discussiontype,
   entityId            |-> inputRow.entityid,
   entityType          |-> IF trim(inputRow.entitytype) = Update THEN Workspace
                           ELSE inputRow.entitytype,
   discussionCreatedAt |-> inputRow.discussioncreatedat,
   score               |-> NumberToString(Times(parseFloat(inputRow.score), ScaleFactor))]

transformRow(inputRow) ==
  [discussionId        |-> inputRow.discussionid,
   discussionType      |-> inputRow.discussiontype,
   entityId            |-> inputRow.entityid,
   entityType          |-> IF inputRow.entitytype = Update THEN Workspace
                           ELSE inputRow.entitytype,
   discussionCreatedAt |-> inputRow.discussioncreatedat,
   score               |-> NumberToString(Times(parseFloat(inputRow.score), ScaleFactor))]

\* ------------------------------------------------------------------- paths

\* path.dirname, for relative paths
dirname(p) ==
  LET sl == {i \in 1..Len(p) : p[i] = "/"}
  IN  IF sl = {} THEN <<".">> ELSE SubSeq(p, 1, Max(sl) - 1)

\* path.basename(p)
basename(p) ==
  LET sl == {i \in 1..Len(p) : p[i] = "/"}
  IN  IF sl = {} THEN p ELSE SubSeq(p, Max(sl) + 1, Len(p))

\* path.extname: from the last '.' of the base name on, "" without one or
\* when it is the first character
extname(p) ==
  LET b    == basename(p)
      dots == {i \in 2..Len(b) : b[i] = "."}
  IN  IF dots = {} THEN <<>> ELSE SubSeq(b, Max(dots), Len(b))

\* path.basename(p, ext)
basenameExt(p, ext) ==
  LET b == basename(p)
  IN  IF Len(ext) > 0 /\ Len(b) > Len(ext)
         /\ SubSeq(b, Len(b) - Len(ext) + 1, Len(b)) = ext
      THEN SubSeq(b, 1, Len(b) - Len(ext))
      ELSE b

\* path.join(dir, name), for a relative directory and a file name
pathJoin(dir, name) == IF dir = <<".">> THEN name ELSE dir \o <<"/">> \o name

ProdFeedPrefix == <<"p","r","o","d","_","f","e","e","d","_">>

DotCsv == <<".","c","s","v">>

\* Whether s from position i (one-based) on starts with
\* prod_feed_\d{8}_\d{6}\.csv
FeedPatternAt(s, i) ==
  /\ i + 28 <= Len(s)
  /\ SubSeq(s, i, i + 9) = ProdFeedPrefix
  /\ \A j \in (i + 10)..(i + 17) : IsDigit(s[j])
  /\ s[i + 18] = "_"
  /\ \A j \in (i + 19)..(i + 24) : IsDigit(s[j])
  /\ SubSeq(s, i + 25, i + 28) = DotCsv

\* file.match(/^prod_feed_\d{8}_\d{6}\.csv$/)
IsFeedFileName(file) == Len(file) = 29 /\ FeedPatternAt(file, 1)

\* currentFileName.match(/prod_feed_(\d{8}_\d{6})\.csv/): the captured
\* timestamp of the leftmost match, NoPath without a match
MatchFeedTimestamp(fileName) ==
  LET at == {i \in 1..Len(fileName) : FeedPatternAt(fileName, i)}
  IN  IF at = {} THEN NoPath ELSE SubSeq(fileName, Min(at) + 10, Min(at) + 24)

\* The characters of the file names used, in increasing UTF-16 code unit
\* order; CharCode is order preserving.
CodeOrder ==
  <<"-", ".", "/", "0", "1", "2", "3", "4", "5", "6", "7", "8", "9", "_",
    "a", "b", "c", "d", "e", "f", "g", "h", "i", "j", "k", "l", "m", "n",
    "o", "p", "q", "r", "s", "t", "u", "v", "w", "x", "y", "z">>

CharCode(c) == CHOOSE i \in 1..Len(CodeOrder) : CodeOrder[i] = c

\* a < b in the order Array.prototype.sort uses by default (code units)
StringLess(a, b) ==
  LET differ == {i \in 1..Len(a) : i <= Len(b) /\ a[i] # b[i]}
  IN  IF differ = {} THEN Len(a) < Len(b)
      ELSE CharCode(a[Min(differ)]) < CharCode(b[Min(differ)])

\* The least string of a non-empty set.
Least(S) == CHOOSE x \in S : \A y \in S \ {x} : StringLess(x, y)

\* Array.prototype.sort() of the strings of a set
RECURSIVE sort(_)
sort(S) ==
  IF S = {} THEN <<>>
  ELSE <<Least(S)>> \o sort(S \ {Least(S)})

\* Array.prototype.reverse
reverse(arr) == [i \in 1..Len(arr) |-> arr[Len(arr) + 1 - i]]

\* ------------------------------------------------------------- file system

\* One file system call of an invocation.
Io(op, path, ok) == [op |-> op, path |-> path, ok |-> ok]

\* fs.readdirSync: the names of the files of a directory
readdirSync(fsys, dir) == {basename(p) : p \in {q \in DOMAIN fsys : dirname(q) = dir}}

\* fs.writeFileSync, when it succeeds
writeFileSync(fsys, path, text) ==
  [p \in DOMAIN fsys \cup {path} |-> IF p = path THEN text ELSE fsys[p]]

\* ---------------------------------------------------------- Snapshot Differ

DiscussionIdHeader == <<"d","i","s","c","u","s","s","i","o","n","I","d">>

RemovedEntriesSuffix ==
  <<"-","r","e","m","o","v","e","d","-","e","n","t","r","i","e","s",".","c","s","v">>

\* files.filter(...): the names of the directory that match the pattern of a
\* feed and are not the current file's
otherFeedFiles(fsys, currentDir, currentFileName) ==
  {file \in readdirSync(fsys, currentDir) :
     IsFeedFileName(file) /\ file # currentFileName}

\* The path findPreviousFeedFile returns for the sorted feed files.
firstFeedFile(currentDir, feedFiles) ==
  IF Len(feedFiles) = 0 THEN NoPath ELSE pathJoin(currentDir, feedFiles[1])

\* A lookup that takes the oldest other snapshot
\* (a faulty findPreviousFeedFile).
findPreviousFeedFileOldest(fsys, currentOutputPath) ==
  IF MatchFeedTimestamp(basename(currentOutputPath)) = NoPath THEN NoPath
  ELSE firstFeedFile(dirname(currentOutputPath),
                     sort(otherFeedFiles(fsys, dirname(currentOutputPath),
                                         basename(currentOutputPath))))

\* findPreviousFeedFile: null is NoPath.  The directory is the one the output
\* was just written to, so readdirSync does not throw.
findPreviousFeedFile(fsys, currentOutputPath) ==
  IF MatchFeedTimestamp(basename(currentOutputPath)) = NoPath THEN NoPath
  ELSE firstFeedFile(dirname(currentOutputPath),
                     reverse(sort(otherFeedFiles(fsys, dirname(currentOutputPath),
                                                 basename(currentOutputPath)))))

\* Set.prototype.add on a Set kept as the sequence of its members in
\* insertion order
SetAdd(set, x) == IF x \in Range(set) THEN set ELSE Append(set, x)

\* The Set of extractDiscussionIds after a line with the given values.
extractValues(values, discussionIdIndex, discussionIds) ==
  IF Len(values) > discussionIdIndex
  THEN SetAdd(discussionIds, values[discussionIdIndex + 1])
  ELSE discussionIds

\* One pass of the loop of extractDiscussionIds: the Set after the line.
extractLine(line, discussionIdIndex, discussionIds) ==
  IF line = <<>> THEN discussionIds
  ELSE extractValues(parseCsvLine(line), discussionIdIndex, discussionIds)

\* The loop of extractDiscussionIds over lines[i..] (one-based).
RECURSIVE extractLoop(_, _, _, _)
extractLoop(lines, i, discussionIdIndex, discussionIds) ==
  IF i > Len(lines) THEN discussionIds
  ELSE extractLoop(lines, i + 1, discussionIdIndex,
                   extractLine(trim(lines[i]), discussionIdIndex, discussionIds))

\* A lookup that reads the first column when no column is named discussionId
\* (a faulty extractColumn).
extractColumnFirst(lines, discussionIdIndex) ==
  extractLoop(lines, 2, IF discussionIdIndex = -1 THEN 0 ELSE discussionIdIndex, <<>>)
\* extractDiscussionIds once the column of the ids is known.
extractColumn(lines, discussionIdIndex) ==
  IF discussionIdIndex = -1 THEN <<>>
  ELSE extractLoop(lines, 2, discussionIdIndex, <<>>)

\* extractDiscussionIds once the file is read and split into lines.
extractFromLines(lines) ==
  IF Len(lines) <= 1 THEN <<>>
  ELSE extractColumn(lines, indexOf(parseCsvLine(lines[1]), DiscussionIdHeader))

\* extractDiscussionIds: the Set returned, in insertion order.  A read that
\* throws (the file does not exist) is caught and gives the empty Set.
extractDiscussionIds(fsys, csvFilePath) ==
  IF csvFilePath \notin DOMAIN fsys THEN <<>>
  ELSE extractFromLines(split(trim(fsys[csvFilePath]), "\n"))
\* A comparison that reports the ids new in the current feed
\* (a faulty removedIdsOf).
removedIdsOfAdded(currentIds, previousIds) ==
  SelectSeq(currentIds, LAMBDA id : id \notin Range(previousIds))
\* A comparison that reports the removed ids last first
\* (a faulty removedIdsOf).
removedIdsOfReversed(currentIds, previousIds) ==
  reverse(SelectSeq(previousIds, LAMBDA id : id \notin Range(currentIds)))

\* Array.from(previousIds).filter(id => !currentIds.has(id))
removedIdsOf(currentIds, previousIds) ==
  SelectSeq(previousIds, LAMBDA id : id \notin Range(currentIds))
\* A report path that is the path of the current snapshot itself
\* (a faulty removedEntriesPath).
removedEntriesPathInPlace(currentFilePath) == currentFilePath

\* The path of the report of removed entries of a feed.
removedEntriesPath(currentFilePath) ==
  pathJoin(dirname(currentFilePath),
           basenameExt(currentFilePath, DotCsv) \o RemovedEntriesSuffix)

\* What the differ leaves: the file system, its calls, what it logged.
DiffOutcome(fsys, io, currentCount, previousCount, removedIds, reportPath, reportSaved) ==
  [fs |-> fsys, io |-> io,
   currentCount |-> currentCount, previousCount |-> previousCount,
   removedCount |-> Len(removedIds), listedIds |-> removedIds,
   reportPath |-> reportPath, reportSaved |-> reportSaved]

\* A report step that writes the report whatever the comparison found (a faulty
\* reportRemoved).
reportRemovedAlways(fsys, reads, currentCount, previousCount, removedIds, reportPath, fault) ==
  DiffOutcome(writeFileSync(fsys, reportPath,
                            join(<<DiscussionIdHeader>> \o removedIds, <<"\n">>)),
              Append(reads, Io("write", reportPath, TRUE)),
              currentCount, previousCount, removedIds, reportPath, TRUE)
\* A report step that lists no id when writing the report throws
\* (a faulty reportRemoved).
reportRemovedUnlisted(fsys, reads, currentCount, previousCount, removedIds, reportPath, fault) ==
  IF Len(removedIds) = 0
  THEN DiffOutcome(fsys, reads, currentCount, previousCount, <<>>, NoPath, FALSE)
  ELSE IF fault = "writeReport"
  THEN DiffOutcome(fsys, Append(reads, Io("write", reportPath, FALSE)),
                   currentCount, previousCount, <<>>, reportPath, FALSE)
  ELSE DiffOutcome(writeFileSync(fsys, reportPath,
                                 join(<<DiscussionIdHeader>> \o removedIds,
                                      <<"\n">>)),
                   Append(reads, Io("write", reportPath, TRUE)),
                   currentCount, previousCount, removedIds, reportPath, TRUE)

\* compareFeedsAndFindRemoved once the removed ids are known: it returns
\* before any write when there are none, and else writes the report.
\* fault = "writeReport": writing the report throws, which is caught.
reportRemoved(fsys, reads, currentCount, previousCount, removedIds, reportPath, fault) ==
  IF Len(removedIds) = 0
  THEN DiffOutcome(fsys, reads, currentCount, previousCount, <<>>, NoPath, FALSE)
  ELSE IF fault = "writeReport"
  THEN DiffOutcome(fsys, Append(reads, Io("write", reportPath, FALSE)),
                   currentCount, previousCount, removedIds, reportPath, FALSE)
  ELSE DiffOutcome(writeFileSync(fsys, reportPath,
                                 join(<<DiscussionIdHeader>> \o removedIds,
                                      <<"\n">>)),
                   Append(reads, Io("write", reportPath, TRUE)),
                   currentCount, previousCount, removedIds, reportPath, TRUE)

\* compareFeedsAndFindRemoved once both Sets of ids are extracted.
compareIds(fsys, currentFilePath, previousFilePath, currentIds, previousIds, fault) ==
  reportRemoved(fsys,
                <<Io("read", currentFilePath, currentFilePath \in DOMAIN fsys),
                  Io("read", previousFilePath, previousFilePath \in DOMAIN fsys)>>,
                Len(currentIds), Len(previousIds),
                removedIdsOf(currentIds, previousIds),
                removedEntriesPath(currentFilePath), fault)

\* compareFeedsAndFindRemoved: the file system it leaves, its file system
\* calls and what it logs.
compareFeedsAndFindRemoved(fsys, currentFilePath, previousFilePath, fault) ==
  compareIds(fsys, currentFilePath, previousFilePath,
             extractDiscussionIds(fsys, currentFilePath),
             extractDiscussionIds(fsys, previousFilePath), fault)

\* --------------------------------------------------------- Feed Materializer

ExpectedHeaders ==
  << <<"d","i","s","c","u","s","s","i","o","n","i","d">>,
     <<"d","i","s","c","u","s","s","i","o","n","t","y","p","e">>,
     <<"e","n","t","i","t","y","i","d">>,
     <<"e","n","t","i","t","y","t","y","p","e">>,
     <<"d","i","s","c","u","s","s","i","o","n","c","r","e","a","t","e","d","a","t">>,
     <<"s","c","o","r","e">> >>

OutputHeaders ==
  << DiscussionIdHeader,
     <<"d","i","s","c","u","s","s","i","o","n","T","y","p","e">>,
     <<"e","n","t","i","t","y","I","d">>,
     <<"e","n","t","i","t","y","T","y","p","e">>,
     <<"d","i","s","c","u","s","s","i","o","n","C","r","e","a","t","e","d","A","t">>,
     <<"s","c","o","r","e">> >>

TransformedSuffix ==
  <<"_","t","r","a","n","s","f","o","r","m","e","d",".","c","s","v">>

\* What an invocation that reported nothing would have reported.
NoOutput ==
  [error |-> None, headerWarning |-> NoPath, processedRows |-> Unreported,
   entityTypeChanges |-> Unreported, outputFile |-> NoPath, lookedUp |-> FALSE,
   previousFeedPath |-> NoPath, compared |-> FALSE, currentCount |-> Unreported,
   previousCount |-> Unreported, removedCount |-> Unreported, listedIds |-> <<>>,
   reportPath |-> NoPath, reportSaved |-> FALSE]

\* expectedHeaders.find(expected => !inputHeaders.includes(expected)):
\* the first expected header that is absent, NoPath (undefined) without one
headerMismatchOf(inputHeaders) ==
  LET absent == {i \in 1..Len(ExpectedHeaders) :
                   ExpectedHeaders[i] \notin Range(inputHeaders)}
  IN  IF absent = {} THEN NoPath ELSE ExpectedHeaders[Min(absent)]

\* An input row read by column position (a faulty inputRowOf).
inputRowOfPositional(values, inputHeaders) ==
  [discussionid        |-> ValueOr(values, 0, <<>>),
   discussiontype      |-> ValueOr(values, 1, <<>>),
   entityid            |-> ValueOr(values, 2, <<>>),
   entitytype          |-> ValueOr(values, 3, <<>>),
   discussioncreatedat |-> ValueOr(values, 4, <<>>),
   score               |-> ValueOr(values, 5, <<"0">>)]

\* The input row object processCsvFile builds from the values of a line.
inputRowOf(values, inputHeaders) ==
  [discussionid        |-> ValueOr(values, indexOf(inputHeaders, ExpectedHeaders[1]), <<>>),
   discussiontype      |-> ValueOr(values, indexOf(inputHeaders, ExpectedHeaders[2]), <<>>),
   entityid            |-> ValueOr(values, indexOf(inputHeaders, ExpectedHeaders[3]), <<>>),
   entitytype          |-> ValueOr(values, indexOf(inputHeaders, ExpectedHeaders[4]), <<>>),
   discussioncreatedat |-> ValueOr(values, indexOf(inputHeaders, ExpectedHeaders[5]), <<>>),
   score               |-> ValueOr(values, indexOf(inputHeaders, ExpectedHeaders[6]), <<"0">>)]

\* The output values of a transformed row, in the order of the output header.
outputValuesOf(outputRow) ==
  <<outputRow.discussionId, outputRow.discussionType, outputRow.entityId,
    outputRow.entityType, outputRow.discussionCreatedAt, outputRow.score>>

\* The output line of one data line.
outputLineOf(line, inputHeaders) ==
  toCsvLine(outputValuesOf(transformRow(
    inputRowOf(parseCsvLine(line), inputHeaders))))

\* The output lines after a line that is written only if new.
appendDistinct(outputLines, outputLine) ==
  IF outputLine \in Range(outputLines) THEN outputLines
  ELSE Append(outputLines, outputLine)

\* One pass of a row loop that writes a line only once
\* (a faulty processLine).
processLineDistinct(line, inputHeaders, outputLines) ==
  IF line = <<>> THEN outputLines
  ELSE appendDistinct(outputLines, outputLineOf(line, inputHeaders))

\* One pass of the loop of processCsvFile: the output lines after the line.
processLine(line, inputHeaders, outputLines) ==
  IF line = <<>> THEN outputLines
  ELSE Append(outputLines, outputLineOf(line, inputHeaders))

\* The loop of processCsvFile over lines[i..] (one-based): the output lines.
RECURSIVE processRows(_, _, _, _)
processRows(lines, i, inputHeaders, outputLines) ==
  IF i > Len(lines) THEN outputLines
  ELSE processRows(lines, i + 1, inputHeaders,
                   processLine(trim(lines[i]), inputHeaders, outputLines))

\* What processCsvFile leaves when it throws: the catch block logs the error
\* and calls process.exit(1).
Thrown(fsys, io, error) ==
  [fs |-> fsys, exitCode |-> 1, io |-> io,
   out |-> [NoOutput EXCEPT !.error = error]]

\* The output path processCsvFile derives when none is given.
derivedOutputPath(inputFilePath) ==
  pathJoin(dirname(inputFilePath),
           basenameExt(inputFilePath, extname(inputFilePath))
             \o TransformedSuffix)

\* outputLines.slice(1).filter(line => parseCsvLine(line)[3] === 'workspace')
\* .length
entityTypeChangesOf(outputLines) ==
  Cardinality({i \in 2..Len(outputLines) :
                 parseCsvLine(outputLines[i])[4] = Workspace})

\* processCsvFile after the comparison with the previous feed.
Compared(io, summary, previousFeedPath, diff) ==
  [fs |-> diff.fs, exitCode |-> 0, io |-> io \o diff.io,
   out |-> [summary EXCEPT
              !.lookedUp = TRUE,
              !.previousFeedPath = previousFeedPath,
              !.compared = TRUE,
              !.currentCount = diff.currentCount,
              !.previousCount = diff.previousCount,
              !.removedCount = diff.removedCount,
              !.listedIds = diff.listedIds,
              !.reportPath = diff.reportPath,
              !.reportSaved = diff.reportSaved]]

\* processCsvFile from the result of findPreviousFeedFile on: the feeds are
\* compared if there is a previous one.
compareWithPrevious(fsys, outputFilePath, io, summary, previousFeedPath, fault) ==
  IF previousFeedPath = NoPath
  THEN [fs |-> fsys, exitCode |-> 0, io |-> io,
        out |-> [summary EXCEPT !.lookedUp = TRUE]]
  ELSE Compared(io, summary, previousFeedPath,
                compareFeedsAndFindRemoved(fsys, outputFilePath,
                                           previousFeedPath, fault))
\* An after-write step that looks the previous feed up whatever the output
\* is named (a faulty afterWrite).
afterWriteAlwaysLookup(fsys, outputFilePath, io, summary, fault) ==
  compareWithPrevious(fsys, outputFilePath,
                      Append(io, Io("readdir", dirname(outputFilePath), TRUE)),
                      summary,
                      findPreviousFeedFile(fsys, outputFilePath), fault)

\* processCsvFile after the write of the output and the summary: the previous
\* feed is looked up if the output is named as a prod feed.
afterWrite(fsys, outputFilePath, io, summary, fault) ==
  IF ~IsFeedFileName(basename(outputFilePath))
  THEN [fs |-> fsys, exitCode |-> 0, io |-> io, out |-> summary]
  ELSE compareWithPrevious(fsys, outputFilePath,
                           Append(io, Io("readdir", dirname(outputFilePath), TRUE)),
                           summary,
                           findPreviousFeedFile(fsys, outputFilePath), fault)
\* A write step that goes on to the comparison when the write has thrown
\* (a faulty writeOutput).
writeOutputUnchecked(fsys, inputFilePath, outputFilePath, headerWarning, processedRows, outputLines, fault) ==
  afterWrite(IF fault = "writeOutput" THEN fsys
             ELSE writeFileSync(fsys, outputFilePath, join(outputLines, <<"\n">>)),
             outputFilePath,
             <<Io("read", inputFilePath, TRUE),
               Io("write", outputFilePath, fault # "writeOutput")>>,
             [NoOutput EXCEPT
                !.headerWarning = headerWarning,
                !.processedRows = processedRows,
                !.entityTypeChanges = entityTypeChangesOf(outputLines),
                !.outputFile = outputFilePath],
             fault)

\* processCsvFile from the write of the output on.  fault = "writeOutput":
\* writing the output throws.
writeOutput(fsys, inputFilePath, outputFilePath, headerWarning, processedRows, outputLines, fault) ==
  IF fault = "writeOutput"
  THEN Thrown(fsys, <<Io("read", inputFilePath, TRUE),
                      Io("write", outputFilePath, FALSE)>>, "write")
  ELSE afterWrite(writeFileSync(fsys, outputFilePath, join(outputLines, <<"\n">>)),
                  outputFilePath,
                  <<Io("read", inputFilePath, TRUE),
                    Io("write", outputFilePath, TRUE)>>,
                  [NoOutput EXCEPT
                     !.headerWarning = headerWarning,
                     !.processedRows = processedRows,
                     !.entityTypeChanges = entityTypeChangesOf(outputLines),
                     !.outputFile = outputFilePath],
                  fault)
\* A processCsvFile that throws when an expected header is absent
\* (a faulty processData).
processDataStrict(fsys, inputFilePath, outputFilePath, lines, inputHeaders, fault) ==
  IF headerMismatchOf(inputHeaders) # NoPath
  THEN Thrown(fsys, <<Io("read", inputFilePath, TRUE)>>, "header")
  ELSE writeOutput(fsys, inputFilePath, outputFilePath,
                   headerMismatchOf(inputHeaders), Len(lines) - 1,
                   processRows(lines, 2, inputHeaders, <<toCsvLine(OutputHeaders)>>),
                   fault)

\* processCsvFile from the parsed header on.
processData(fsys, inputFilePath, outputFilePath, lines, inputHeaders, fault) ==
  writeOutput(fsys, inputFilePath, outputFilePath,
              headerMismatchOf(inputHeaders), Len(lines) - 1,
              processRows(lines, 2, inputHeaders, <<toCsvLine(OutputHeaders)>>),
              fault)

\* processCsvFile from the lines of the input on.
processLines(fsys, inputFilePath, outputFilePath, lines, fault) ==
  IF Len(lines) = 0
  THEN Thrown(fsys, <<Io("read", inputFilePath, TRUE)>>, "Input file is empty")
  ELSE processData(fsys, inputFilePath, outputFilePath, lines,
                   parseCsvLine(lines[1]), fault)

\* processCsvFile(inputFilePath, outputFilePath?): the file system it leaves,
\* the exit status (0: it returned), its file system calls and what it logged.
\* An omitted outputFilePath is NoPath.
processCsvFile(fsys, inputFilePath, outputFilePath, fault) ==
  IF inputFilePath \notin DOMAIN fsys
  THEN Thrown(fsys, <<Io("read", inputFilePath, FALSE)>>, "read")
  ELSE processLines(fsys, inputFilePath,
                    IF outputFilePath = NoPath
                    THEN derivedOutputPath(inputFilePath)
                    ELSE outputFilePath,
                    split(trim(fsys[inputFilePath]), "\n"), fault)

\* The result of main once processCsvFile has run.
afterExists(inputFile, r) ==
  [r EXCEPT !.io = <<Io("exists", inputFile, TRUE)>> \o @]
\* A main that takes a missing input for an empty one
\* (a faulty main).
mainMissingAsEmpty(fsys, inputFile, outputFile, fault) ==
  afterExists(inputFile,
              processLines(fsys, inputFile,
                           IF outputFile = NoPath
                           THEN derivedOutputPath(inputFile) ELSE outputFile,
                           IF inputFile \in DOMAIN fsys
                           THEN split(trim(fsys[inputFile]), "\n") ELSE << <<>> >>,
                           fault))

\* main with arguments <input-file> [output-file]
main(fsys, inputFile, outputFile, fault) ==
  IF inputFile \notin DOMAIN fsys
  THEN [fs |-> fsys, exitCode |-> 1, io |-> <<Io("exists", inputFile, FALSE)>>,
        out |-> [NoOutput EXCEPT !.error = "Input file not found"]]
  ELSE afterExists(inputFile, processCsvFile(fsys, inputFile, outputFile, fault))

\* ------------------------------------------------------------------ inputs
\* A raw feed is written down as its rows, each the six values of a data line
\* in the order of ExpectedHeaders (or Blank, an empty line), and the order
\* of its columns: column j of the file holds field perm[j].

Blank == <<>>

Identity == <<1, 2, 3, 4, 5, 6>>

\* The text of one data line: values holding a comma are quoted, as the
\* query service exports them.
RawLine(row, perm) ==
  IF row = Blank THEN <<>>
  ELSE join([j \in 1..Len(perm) |-> quoteValue(row[perm[j]])], <<",">>)

\* The text of a raw feed.
RawText(perm, rows) ==
  join(<<join([j \in 1..Len(perm) |-> ExpectedHeaders[perm[j]]], <<",">>)>>
         \o [i \in 1..Len(rows) |-> RawLine(rows[i], perm)],
       <<"\n">>)

Notebook == <<"n","o","t","e","b","o","o","k">>

RowE1 == << <<"1">>, <<"2">>, <<"E","1">>, Update,
            <<"2","0","2","5","-","0","1","-","0","1">>, <<"0",".","5">> >>

\* Three rows, ids 1, 2, 3.
RowsA ==
  << RowE1,
     << <<"2">>, <<"4">>, <<"N","2">>, Notebook, <<"d">>, <<"0",".","2","5">> >>,
     << <<"3">>, <<"2">>, <<"W","3">>, Workspace, <<"d">>, <<"1">> >> >>

\* Ids 1, 3, 4: an empty line, a value holding a comma, an entity type that
\* differs from "update" by case, a score that is no number, a line without
\* a score, and the same line twice.
RowsB ==
  << RowE1,
     Blank,
     << <<"3">>, <<"2">>, <<"a",",","b">>, <<"U","p","d","a","t","e">>, <<"d">>, <<"x">> >>,
     << <<"4">>, <<"9">>, <<"N","4">>, Notebook, <<"d">>, <<>> >>,
     << <<"4">>, <<"9">>, <<"N","4">>, Notebook, <<"d">>, <<>> >> >>

\* The single row of the scaling example.
RowsD == << RowE1 >>

\* Its columns: entityid, entitytype, score, discussionid, discussiontype,
\* discussioncreatedat.
PermD == <<3, 4, 6, 1, 2, 5>>

InputA == <<"i","n","/","a",".","c","s","v">>

InputB == <<"i","n","/","b",".","c","s","v">>

InputC == <<"i","n","/","c",".","c","s","v">>

InputD == <<"i","n","/","d",".","c","s","v">>

InputMissing == <<"i","n","/","m","i","s","s","i","n","g",".","c","s","v">>

InputBase == <<"i","n","/","b","a","s","e",".","c","s","v">>

InputPerm == <<"i","n","/","p","e","r","m",".","c","s","v">>

\* The rows of the raw feeds that have rows.
RowsOf(inputFile) ==
  IF inputFile = InputA THEN RowsA
  ELSE IF inputFile = InputB THEN RowsB
  ELSE IF inputFile = InputD THEN RowsD
  ELSE <<>>

Timestamps ==
  << <<"2","0","2","5","0","1","0","1","_","2","3","5","9","5","9">>,
     <<"2","0","2","5","0","1","0","2","_","0","0","0","0","0","0">>,
     <<"2","0","2","5","0","1","0","2","_","1","2","0","0","0","0">> >>

\* The snapshot of a timestamp, in the directory out.
FeedPath(ts) == <<"o","u","t","/">> \o ProdFeedPrefix \o ts \o DotCsv

FeedPaths == {FeedPath(Timestamps[i]) : i \in 1..Len(Timestamps)}

\* A later snapshot in another directory.
OtherDirFeed ==
  <<"o","l","d","/">> \o ProdFeedPrefix
    \o <<"2","0","2","6","0","1","0","1","_","0","0","0","0","0","0">> \o DotCsv

\* A file of the directory out whose name holds the snapshot pattern without
\* matching it.
BackupFeed == FeedPath(Timestamps[3]) \o <<".","b","a","k">>

\* The content of both: a snapshot with the one id 9.
DecoyText == DiscussionIdHeader \o <<"\n", "9">>

\* The raw feeds.
InputFiles ==
  [p \in {InputA, InputB, InputC, InputD} |->
     IF p = InputA THEN RawText(Identity, RowsA)
     ELSE IF p = InputB THEN RawText(Identity, RowsB) \o <<"\n">>
     ELSE IF p = InputC THEN <<" ", "\n", " ">>
     ELSE RawText(PermD, RowsD)]

\* The files present before the first invocation: the raw feeds, the two
\* decoys, and the oldest snapshot, written by an earlier run on InputA.
InitialFiles ==
  LET decoys == [p \in {OtherDirFeed, BackupFeed} |-> DecoyText]
      before == [p \in DOMAIN InputFiles \cup DOMAIN decoys |->
                   IF p \in DOMAIN decoys THEN decoys[p] ELSE InputFiles[p]]
  IN  main(before, InputA, FeedPath(Timestamps[1]), "none").fs

Faults == {"none", "writeOutput", "writeReport"}

\* The command lines considered: <input-file> [output-file], and the write
\* that fails while it runs, if any.
Invocations ==
  {[inputFile |-> i, outputFile |-> FeedPath(Timestamps[t]), fault |-> "none"] :
     i \in {InputA, InputB}, t \in {2, 3}}
  \cup {[inputFile |-> InputB, outputFile |-> FeedPath(Timestamps[2]), fault |-> f] :
          f \in Faults}
  \cup {[inputFile |-> InputC, outputFile |-> FeedPath(Timestamps[2]),
         fault |-> "none"],
        [inputFile |-> InputD, outputFile |-> NoPath, fault |-> "none"],
        [inputFile |-> InputMissing, outputFile |-> FeedPath(Timestamps[2]),
         fault |-> "none"]}

NoInvocation == [inputFile |-> NoPath, outputFile |-> NoPath, fault |-> "none"]

\* ------------------------------------------------------------ the pipeline

Init ==
  /\ fs = InitialFiles
  /\ runs = 0
  /\ argv = NoInvocation
  /\ exitCode = Unreported
  /\ ioLog = <<>>
  /\ stdout = NoOutput
  /\ input = <<>>
  /\ result = <<>>
  /\ PollAtRest

\* One run of the script, main to exit, with arguments a.
Main(a) ==
  /\ runs < MaxRuns
  /\ \E r \in {main(fs, a.inputFile, a.outputFile, a.fault)} :
       /\ fs' = r.fs
       /\ exitCode' = r.exitCode
       /\ ioLog' = r.io
       /\ stdout' = r.out
  /\ runs' = runs + 1
  /\ argv' = a
  /\ UNCHANGED <<input, result>>
  /\ UNCHANGED pollVars

\* One run of the script without arguments: the usage text, exit 0.
Usage ==
  /\ runs < MaxRuns
  /\ runs' = runs + 1
  /\ argv' = NoInvocation
  /\ exitCode' = 0
  /\ ioLog' = <<>>
  /\ stdout' = NoOutput
  /\ UNCHANGED <<fs, input, result>>
  /\ UNCHANGED pollVars

Next == (\E a \in Invocations : Main(a)) \/ Usage

Spec == Init /\ [][Next]_vars

\* ------------------------------------------------- the row transformer alone
\* transformRow is applied once to each raw record of InputRows.

EntityTypes ==
  {Update, Workspace, Notebook, <<>>,
   <<"U","p","d","a","t","e">>,
   <<"u","p","d","a","t","e","d">>,
   <<" ","u","p","d","a","t","e">>}

Scores ==
  {<<"0",".","5">>, <<"0",".","2","5">>, <<"1">>, <<"0">>, <<"x">>,
   <<"-","1",".","5">>, <<" ","2">>, <<"3",".">>}

InputRows ==
  [discussionid : {<<"1">>, <<"2">>}, discussiontype : {<<"2">>},
   entityid : {<<"E","1">>}, entitytype : EntityTypes,
   discussioncreatedat : {<<"2","0","2","5","-","0","1","-","0","1">>},
   score : Scores]

\* The pipeline at rest: the variables of the script while a function is applied alone.
AtRest ==
  /\ fs = InputFiles
  /\ runs = 0
  /\ argv = NoInvocation
  /\ exitCode = Unreported
  /\ ioLog = <<>>
  /\ stdout = NoOutput

InitRow ==
  /\ AtRest
  /\ input \in InputRows
  /\ result = <<>>
  /\ PollAtRest

CallTransformRow ==
  /\ result = <<>>
  /\ result' = <<transformRow(input)>>
  /\ UNCHANGED <<fs, runs, argv, exitCode, ioLog, stdout, input>>
  /\ UNCHANGED pollVars

NextRow == CallTransformRow

SpecRow == InitRow /\ [][NextRow]_vars

\* ---------------------------------------------------------- the codec alone
\* A row is encoded with toCsvLine, then the line is decoded with
\* parseCsvLine.

CodecAlphabet == {"a", ",", "\"", " "}

\* The strings over the alphabet of at most n characters.
RECURSIVE StringsUpTo(_)
StringsUpTo(n) ==
  IF n = 0 THEN {<<>>}
  ELSE StringsUpTo(n - 1)
         \cup {Append(t, c) : t \in StringsUpTo(n - 1), c \in CodecAlphabet}

\* The rows of one to MaxFields fields of at most MaxFieldLen characters.
CodecRows ==
  UNION {[1..n -> StringsUpTo(MaxFieldLen)] : n \in 1..MaxFields}

InitCodec ==
  /\ AtRest
  /\ input \in CodecRows
  /\ result = <<>>
  /\ PollAtRest

CallToCsvLine ==
  /\ result = <<>>
  /\ result' = <<toCsvLine(input)>>
  /\ UNCHANGED <<fs, runs, argv, exitCode, ioLog, stdout, input>>
  /\ UNCHANGED pollVars

CallParseCsvLine ==
  /\ Len(result) = 1
  /\ result' = Append(result, parseCsvLine(result[1]))
  /\ UNCHANGED <<fs, runs, argv, exitCode, ioLog, stdout, input>>
  /\ UNCHANGED pollVars

NextCodec == CallToCsvLine \/ CallParseCsvLine

SpecCodec == InitCodec /\ [][NextCodec]_vars

\* ------------------------------------------------ permuted header columns
\* The same rows are stored twice, in/base.csv with the columns in the order
\* of ExpectedHeaders and in/perm.csv with the columns permuted, and the
\* script is run once on each, without an output argument.

ColumnOrders == {perm \in [1..6 -> 1..6] : Range(perm) = 1..6}

HeaderFiles(perm) ==
  [p \in {InputBase, InputPerm} |->
     IF p = InputBase THEN RawText(Identity, RowsB) ELSE RawText(perm, RowsB)]

HeaderInvocations ==
  {[inputFile |-> i, outputFile |-> NoPath, fault |-> "none"] :
     i \in {InputBase, InputPerm}}

InitHeader ==
  /\ \E perm \in ColumnOrders :
       /\ fs = HeaderFiles(perm)
       /\ input = perm
  /\ runs = 0
  /\ argv = NoInvocation
  /\ exitCode = Unreported
  /\ ioLog = <<>>
  /\ stdout = NoOutput
  /\ result = <<>>
  /\ PollAtRest

\* One run of the script on a file it has not been run on yet.
MainOnce(a) ==
  /\ derivedOutputPath(a.inputFile) \notin DOMAIN fs
  /\ Main(a)

NextHeader == \E a \in HeaderInvocations : MainOnce(a)

SpecHeader == InitHeader /\ [][NextHeader]_vars

\* -------------------------------------------------------------- properties

\* The ids of the rows of a raw feed.
IdsOfRows(rows) == {rows[i][1] : i \in {j \in 1..Len(rows) : rows[j] # Blank}}

\* C1: when the feeds are compared, the ids reported as removed, and the ids
\* of the report if one is saved, are exactly the ids extracted from the
\* previous snapshot that are not extracted from the current one; no id of a
\* row of the current feed is reported.
RemovedIsPreviousMinusCurrent ==
  stdout.compared =>
    LET previousKeys == Range(extractDiscussionIds(fs, stdout.previousFeedPath))
        currentKeys  == Range(extractDiscussionIds(fs, stdout.outputFile))
    IN  /\ Range(stdout.listedIds) = previousKeys \ currentKeys
        /\ stdout.removedCount = Cardinality(previousKeys \ currentKeys)
        /\ Range(stdout.listedIds) \cap IdsOfRows(RowsOf(argv.inputFile)) = {}
        /\ stdout.reportSaved =>
             Range(Tail(split(fs[stdout.reportPath], "\n")))
               = previousKeys \ currentKeys

\* C1 witness: the feed of ids 1, 3, 4 was compared with the snapshot of ids
\* 1, 2, 3, and id 2 was reported and saved.
RemovedIdReported ==
  /\ stdout.compared
  /\ argv.inputFile = InputB
  /\ stdout.previousFeedPath = FeedPath(Timestamps[1])
  /\ stdout.listedIds = << <<"2">> >>
  /\ stdout.reportSaved

\* C2: a row encoded with toCsvLine and decoded with parseCsvLine is the
\* original row, field for field, also when fields hold commas or quotes.
RoundTrip == Len(result) = 2 => result[2] = input

\* C3: a run on an input that is empty after trimming exits with status 1 on
\* the empty-input error and writes nothing.
EmptyInputFails ==
  (runs > 0 /\ argv.inputFile = InputC) =>
    /\ exitCode = 1
    /\ stdout.error = "Input file is empty"
    /\ \A i \in 1..Len(ioLog) : ioLog[i].op # "write"

\* The snapshots of the directory of a path, the path itself left out.
OtherSnapshots(fsys, current) ==
  {q \in DOMAIN fsys : /\ dirname(q) = dirname(current)
                       /\ IsFeedFileName(basename(q))
                       /\ q # current}

\* C4: the snapshot the feed is compared with is the latest one with a
\* timestamp smaller than the current file's.
PreviousIsMostRecentPrior ==
  stdout.compared =>
    /\ StringLess(basename(stdout.previousFeedPath), basename(stdout.outputFile))
    /\ \A q \in OtherSnapshots(fs, stdout.outputFile) :
         StringLess(basename(q), basename(stdout.outputFile))
           => ~StringLess(basename(stdout.previousFeedPath), basename(q))

\* Current paths findPreviousFeedFile is asked about: the snapshots of the
\* directory out, and a snapshot of the directory in, which holds no other.
CurrentPaths ==
  FeedPaths \cup {<<"i","n","/">> \o basename(FeedPath(Timestamps[2]))}

\* What C5 says of the path lookup returns for a current path.
IsGreatestOther(fsys, current, found) ==
  IF OtherSnapshots(fsys, current) = {} THEN found = NoPath
  ELSE /\ found \in OtherSnapshots(fsys, current)
       /\ \A q \in OtherSnapshots(fsys, current) :
            ~StringLess(basename(found), basename(q))

IsReportPath(p) ==
  /\ Len(p) >= Len(RemovedEntriesSuffix)
  /\ SubSeq(p, Len(p) - Len(RemovedEntriesSuffix) + 1, Len(p)) = RemovedEntriesSuffix

\* C6: a run that compares the feeds when every id of the previous snapshot
\* is in the current one reports zero removals, writes nothing but its
\* output, and leaves every report as it was: none created, none changed.
NoRemovalNoWrite ==
  [][(/\ runs' = runs + 1
      /\ stdout'.compared
      /\ Range(extractDiscussionIds(fs', stdout'.previousFeedPath))
           \subseteq Range(extractDiscussionIds(fs', stdout'.outputFile)))
     => /\ stdout'.removedCount = 0
        /\ stdout'.listedIds = <<>>
        /\ ~stdout'.reportSaved
        /\ \A i \in 1..Len(ioLog') :
             ioLog'[i].op = "write" => ioLog'[i].path = stdout'.outputFile
        /\ \A p \in {q \in DOMAIN fs \cup DOMAIN fs' : IsReportPath(q)} :
             p \in DOMAIN fs /\ p \in DOMAIN fs' /\ fs'[p] = fs[p]]_vars

\* C6 witness: the feeds were compared and nothing was removed, while the
\* report of an earlier run on the same output is still there.
NoRemovalBesideOldReport ==
  /\ stdout.compared
  /\ stdout.removedCount = 0
  /\ removedEntriesPath(stdout.outputFile) \in DOMAIN fs

\* C7: the entityType of the output is "workspace" exactly when the
\* entitytype of the input is "update" or "workspace", any other entitytype
\* is passed through, and the other four fields are copied.
EntityTypeExactMatch ==
  result # <<>> =>
    /\ result[1].entityType = Workspace <=> input.entitytype \in {Update, Workspace}
    /\ input.entitytype # Update => result[1].entityType = input.entitytype
    /\ result[1].discussionId = input.discussionid
    /\ result[1].discussionType = input.discussiontype
    /\ result[1].entityId = input.entityid
    /\ result[1].discussionCreatedAt = input.discussioncreatedat

\* C7 witness: " update" was transformed and passed through.
PaddedUpdatePassedThrough ==
  /\ result # <<>>
  /\ input.entitytype = <<" ","u","p","d","a","t","e">>
  /\ result[1].entityType = <<" ","u","p","d","a","t","e">>

\* C8: once the script has run on both files, the output written for the
\* permuted columns is the output written for the unpermuted ones, and its
\* header is the six output names in their fixed order.
HeaderOrderInsensitive ==
  {derivedOutputPath(InputBase), derivedOutputPath(InputPerm)} \subseteq DOMAIN fs
    => /\ fs[derivedOutputPath(InputPerm)] = fs[derivedOutputPath(InputBase)]
       /\ split(fs[derivedOutputPath(InputPerm)], "\n")[1]
            = join(OutputHeaders, <<",">>)

\* C8 witness: both outputs are written, for columns in the order entityid,
\* entitytype, score, discussionid, discussiontype, discussioncreatedat.
PermutedOutputWritten ==
  /\ input = PermD
  /\ {derivedOutputPath(InputBase), derivedOutputPath(InputPerm)} \subseteq DOMAIN fs
  /\ Len(split(fs[derivedOutputPath(InputPerm)], "\n")) = 5

\* The raw record of a row of a raw feed.
RecordOf(row) ==
  [discussionid |-> row[1], discussiontype |-> row[2], entityid |-> row[3],
   entitytype |-> row[4], discussioncreatedat |-> row[5],
   score |-> IF row[6] = <<>> THEN <<"0">> ELSE row[6]]

\* The output lines C9 expects for the rows of a raw feed.
ExpectedLines(rows) ==
  LET data == SelectSeq(rows, LAMBDA row : row # Blank)
  IN  [i \in 1..Len(data) |->
         toCsvLine(outputValuesOf(transformRow(RecordOf(data[i]))))]

\* C9: the output a run writes is the header followed by the transform of
\* each non-empty data line of the input, one line each, in input order.
OneRowPerLineInOrder ==
  (runs > 0 /\ exitCode = 0 /\ stdout.outputFile # NoPath) =>
    split(fs[stdout.outputFile], "\n")
      = <<join(OutputHeaders, <<",">>)>> \o ExpectedLines(RowsOf(argv.inputFile))

\* C9 witness: the output of the feed with an empty line and the same line
\* twice is written: four data rows, the last two equal.
DuplicateLinesBothWritten ==
  /\ runs > 0
  /\ exitCode = 0
  /\ argv.inputFile = InputB
  /\ Len(split(fs[stdout.outputFile], "\n")) = 5
  /\ split(fs[stdout.outputFile], "\n")[4] = split(fs[stdout.outputFile], "\n")[5]

\* C10: the run on the single row E1, update, 0.5, 1, 2, 2025-01-01 writes
\* one data row, with entityType "workspace" and score "50", the raw score
\* times 100.
ScoreTimesHundred ==
  (runs > 0 /\ argv.inputFile = InputD) =>
    /\ exitCode = 0
    /\ Tail(split(fs[stdout.outputFile], "\n"))
         = << toCsvLine(<< <<"1">>, <<"2">>, <<"E","1">>, Workspace,
                           <<"2","0","2","5","-","0","1","-","0","1">>,
                           <<"5","0">> >>) >>

\* What C11 says of a result r of main or processCsvFile on a missing input,
\* from the file system fsys.
FailedBeforeAnyWrite(fsys, r) ==
  /\ r.exitCode = 1
  /\ r.fs = fsys
  /\ \A i \in 1..Len(r.io) : r.io[i].op # "write"

\* C11: a run on an input path that does not exist exits with status 1,
\* writes nothing and leaves every file as it was; so does processCsvFile
\* alone when the read of the input fails.
MissingInputFails ==
  [][/\ \A out \in {NoPath, FeedPath(Timestamps[2])}, fault \in Faults :
          FailedBeforeAnyWrite(fs, processCsvFile(fs, InputMissing, out, fault))
     /\ (runs' = runs + 1 /\ argv'.inputFile # NoPath
           /\ argv'.inputFile \notin DOMAIN fs)
        => FailedBeforeAnyWrite(fs, [exitCode |-> exitCode', fs |-> fs',
                                     io |-> ioLog'])]_vars

\* C11 witness: the script ran on the missing input and exited with status
\* 1, main having found the path missing.
MissingInputRun ==
  /\ runs > 0
  /\ argv.inputFile = InputMissing
  /\ exitCode = 1
  /\ stdout.error = "Input file not found"
  /\ ioLog = <<Io("exists", InputMissing, FALSE)>>

\* ------------------------------------------------- absent header columns
\* A raw feed is stored with only some of the six columns, in the order of
\* ExpectedHeaders, and the script is run on it once, without an output
\* argument.

\* The members of a set of column numbers, in increasing order.
InOrder(kept) ==
  [i \in 1..Cardinality(kept) |->
     CHOOSE c \in kept : Cardinality({b \in kept : b < c}) = i - 1]

InitColumns ==
  /\ \E kept \in SUBSET (1..6), rows \in {RowsA, RowsB} :
       /\ fs = [p \in {InputBase} |-> RawText(InOrder(kept), rows)]
       /\ input = [kept |-> kept, rows |-> rows]
  /\ runs = 0
  /\ argv = NoInvocation
  /\ exitCode = Unreported
  /\ ioLog = <<>>
  /\ stdout = NoOutput
  /\ result = <<>>
  /\ PollAtRest

NextColumns ==
  MainOnce([inputFile |-> InputBase, outputFile |-> NoPath, fault |-> "none"])

SpecColumns == InitColumns /\ [][NextColumns]_vars

\* The raw record C12 expects for a row stored with the columns kept.
RecordOfKept(row, kept) ==
  [discussionid        |-> IF 1 \in kept THEN row[1] ELSE <<>>,
   discussiontype      |-> IF 2 \in kept THEN row[2] ELSE <<>>,
   entityid            |-> IF 3 \in kept THEN row[3] ELSE <<>>,
   entitytype          |-> IF 4 \in kept THEN row[4] ELSE <<>>,
   discussioncreatedat |-> IF 5 \in kept THEN row[5] ELSE <<>>,
   score               |-> IF 6 \in kept /\ row[6] # <<>> THEN row[6] ELSE <<"0">>]

\* The output lines C12 expects: one for each row whose stored line is not
\* empty.
ExpectedLinesOfKept(rows, kept) ==
  LET data == SelectSeq(rows, LAMBDA row : RawLine(row, InOrder(kept)) # <<>>)
  IN  [i \in 1..Len(data) |->
         toCsvLine(outputValuesOf(transformRow(RecordOfKept(data[i], kept))))]

\* C12: whichever expected headers are absent, the run exits with status 0,
\* warns of the first absent one, and writes the header and one row per
\* non-empty data line, where a field of an absent column or without a value
\* is empty, the score is computed from "0", and the other fields are those
\* of the line.
MissingHeaderNonFatal ==
  runs > 0 =>
    /\ exitCode = 0
    /\ derivedOutputPath(InputBase) \in DOMAIN fs
    /\ stdout.headerWarning
         = IF input.kept = 1..6 THEN NoPath
           ELSE ExpectedHeaders[Min((1..6) \ input.kept)]
    /\ split(fs[derivedOutputPath(InputBase)], "\n")
         = <<join(OutputHeaders, <<",">>)>>
             \o ExpectedLinesOfKept(input.rows, input.kept)

\* C12 witness: the feed stored without the columns discussiontype,
\* entitytype and score was written, four rows, after the warning.
OutputWithoutThreeColumns ==
  /\ input.kept = {1, 3, 5}
  /\ input.rows = RowsB
  /\ exitCode = 0
  /\ stdout.headerWarning = ExpectedHeaders[2]
  /\ derivedOutputPath(InputBase) \in DOMAIN fs
  /\ split(fs[derivedOutputPath(InputBase)], "\n")[3]
       = <<"3", ",", ",", "\"", "a", ",", "b", "\"", ",", ",", "d", ",", "0">>

\* Output paths whose names come close to the pattern of a snapshot without
\* matching it: a suffix after .csv, a character before prod_feed_, seven
\* digits for the date, and the path derived from an input.
NearMissPaths ==
  {BackupFeed,
   <<"o","u","t","/","x">> \o basename(FeedPath(Timestamps[2])),
   <<"o","u","t","/">> \o ProdFeedPrefix
     \o <<"2","0","2","5","0","1","0","_","0","0","0","0","0","0">> \o DotCsv,
   derivedOutputPath(InputD)}

\* C13: a run that wrote its output compared the feeds exactly if the output
\* is named as a snapshot and the directory holds another snapshot; for an
\* output named otherwise there is no lookup, no comparison and no call but
\* the read of the input and the write of the output.
DiffOnlyForSnapshots ==
  /\ \A out \in NearMissPaths :
       afterWrite(fs, out, <<>>, NoOutput, "none")
         = [fs |-> fs, exitCode |-> 0, io |-> <<>>, out |-> NoOutput]
  /\ \A out \in CurrentPaths :
       afterWrite(fs, out, <<>>, NoOutput, "none").out.compared
         <=> (FeedPaths \cap DOMAIN fs) \ {out} # {} /\ out \in FeedPaths
  /\ (runs > 0 /\ exitCode = 0 /\ stdout.outputFile # NoPath) =>
       /\ stdout.compared
            <=> /\ stdout.outputFile \in FeedPaths
                /\ (FeedPaths \cap DOMAIN fs) \ {stdout.outputFile} # {}
       /\ stdout.outputFile \notin FeedPaths =>
            /\ ~stdout.lookedUp
            /\ stdout.reportPath = NoPath
            /\ ioLog = <<Io("exists", argv.inputFile, TRUE),
                         Io("read", argv.inputFile, TRUE),
                         Io("write", stdout.outputFile, TRUE)>>

\* C13 witness: the run without an output argument wrote the derived
\* <name>_transformed.csv beside snapshots and looked nothing up.
DerivedOutputNotCompared ==
  /\ runs > 0
  /\ exitCode = 0
  /\ argv.inputFile = InputD
  /\ stdout.outputFile = derivedOutputPath(InputD)
  /\ stdout.outputFile \in DOMAIN fs
  /\ ~stdout.lookedUp

\* The first field of each non-empty data line of a snapshot, in line order.
KeyColumn(text) ==
  LET data == SelectSeq(Tail(split(trim(text), "\n")), LAMBDA line : trim(line) # <<>>)
  IN  [i \in 1..Len(data) |-> parseCsvLine(data[i])[1]]

\* The keys of previous that are not among those of current, each once, in
\* the order of their first appearance in previous.
RemovedInOrder(previous, current) ==
  LET first == {i \in 1..Len(previous) :
                  /\ previous[i] \notin Range(current)
                  /\ \A j \in 1..(i - 1) : previous[j] # previous[i]}
  IN  [k \in 1..Cardinality(first) |-> previous[InOrder(first)[k]]]

\* C14: a saved report is the file <current-stem>-removed-entries.csv of the
\* directory of the current snapshot, and holds the line discussionId, then
\* the removed ids, one per line, each once, in the order of their first
\* appearance in the previous snapshot, and nothing else.
ReportListsRemovedInOrder ==
  stdout.reportSaved =>
    /\ stdout.reportPath
         = SubSeq(stdout.outputFile, 1, Len(stdout.outputFile) - Len(DotCsv))
             \o RemovedEntriesSuffix
    /\ stdout.reportPath \in DOMAIN fs
    /\ split(fs[stdout.reportPath], "\n")
         = <<DiscussionIdHeader>>
             \o RemovedInOrder(KeyColumn(fs[stdout.previousFeedPath]),
                               KeyColumn(fs[stdout.outputFile]))

\* C14 witness: the previous snapshot held the ids 1, 3, 4, 4 and the
\* current one none; the report lists 1, 3, 4.
ThreeRemovedReported ==
  /\ stdout.reportSaved
  /\ KeyColumn(fs[stdout.previousFeedPath]) = << <<"1">>, <<"3">>, <<"4">>, <<"4">> >>
  /\ fs[stdout.reportPath] = DiscussionIdHeader \o <<"\n", "1", "\n", "3", "\n", "4">>

\* ------------------------------------------------------- the decoder alone
\* parseCsvLine is applied once to each line over the alphabet of the codec
\* of at most MaxLineLen characters, quotes balanced or not.

InitParse ==
  /\ AtRest
  /\ input \in StringsUpTo(MaxLineLen)
  /\ result = <<input>>
  /\ PollAtRest

NextParse == CallParseCsvLine

SpecParse == InitParse /\ [][NextParse]_vars

\* The positions of the commas of a line that follow an even number of
\* double quotes.
SeparatorsOf(line) ==
  {i \in 1..Len(line) :
     /\ line[i] = ","
     /\ Cardinality({j \in 1..(i - 1) : line[j] = "\""}) % 2 = 0}

\* The k-th stretch of a line between separators, its double quotes left out.
StretchOf(line, k) ==
  LET cuts == <<0>> \o InOrder(SeparatorsOf(line)) \o <<Len(line) + 1>>
  IN  SelectSeq(SubSeq(line, cuts[k] + 1, cuts[k + 1] - 1), LAMBDA c : c # "\"")

\* C15: the fields decoded from a line are one more than its commas outside
\* quoted spans, and each is the stretch between two such commas, commas
\* inside quotes kept, without the quotes and without the white space at its
\* ends.
CommaSeparatesOutsideQuotes ==
  Len(result) = 2 =>
    /\ Len(result[2]) = 1 + Cardinality(SeparatorsOf(result[1]))
    /\ \A k \in 1..Len(result[2]) : result[2][k] = trim(StretchOf(result[1], k))

\* C15 witness: the line ",a" between double quotes was decoded as the one
\* field ",a".
QuotedCommaKept ==
  /\ result = << <<"\"", ",", "a", "\"">>, << <<",", "a">> >> >>
  /\ input = result[1]

\* Whether call i of the last run belongs to the differ: the listing of the
\* directory, a read of a file that is not the input, the write of a report.
IsDifferCall(i) ==
  \/ ioLog[i].op = "readdir"
  \/ ioLog[i].op = "read" /\ ioLog[i].path # argv.inputFile
  \/ ioLog[i].op = "write" /\ IsReportPath(ioLog[i].path)

\* C16: in the calls of a run, every call of the differ comes after the
\* successful write of the output; a run whose write of the output failed
\* ends there, with no lookup and no comparison; and the snapshot a run
\* compared as current is the complete output of that run, whose keys are
\* the ids of the rows of its input.
WriteBeforeDiff ==
  /\ \A i \in 1..Len(ioLog) :
       IsDifferCall(i) =>
         \E j \in 1..(i - 1) : /\ ioLog[j].op = "write"
                               /\ ioLog[j].ok
                               /\ ~IsReportPath(ioLog[j].path)
                               /\ ioLog[j].path = stdout.outputFile
  /\ \A i \in 1..Len(ioLog) :
       (ioLog[i].op = "write" /\ ~ioLog[i].ok /\ ~IsReportPath(ioLog[i].path)) =>
         /\ i = Len(ioLog)
         /\ exitCode = 1
         /\ ~stdout.lookedUp
         /\ ~stdout.compared
  /\ stdout.compared =>
       /\ fs[stdout.outputFile]
            = join(<<join(OutputHeaders, <<",">>)>>
                     \o ExpectedLines(RowsOf(argv.inputFile)), <<"\n">>)
       /\ Range(KeyColumn(fs[stdout.outputFile])) = IdsOfRows(RowsOf(argv.inputFile))
       /\ stdout.currentCount = Cardinality(IdsOfRows(RowsOf(argv.inputFile)))

\* C16 witness: a run replaced the snapshot an earlier run had written from
\* another input at the same path, then listed the directory, then read the
\* snapshot back, and counted the three ids of its own input.
OutputWrittenThenCompared ==
  /\ runs > 1
  /\ stdout.compared
  /\ argv.inputFile = InputA
  /\ stdout.currentCount = 3
  /\ removedEntriesPath(stdout.outputFile) \in DOMAIN fs
  /\ ioLog[3] = Io("write", stdout.outputFile, TRUE)
  /\ ioLog[4].op = "readdir"
  /\ ioLog[5] = Io("read", stdout.outputFile, TRUE)

\* ------------------------------------------------ extractDiscussionIds alone
\* extractDiscussionIds is applied once to the path of a snapshot, where a
\* small file is stored, or is not: the file is then stored under another
\* path.  The file is a header line followed by at most MaxDataLines lines.

ExtractHeaders ==
  {<<"d", "i", "s", "c", "u", "s", "s", "i", "o", "n", "I", "d">>,
   <<"x", ",", "d", "i", "s", "c", "u", "s", "s", "i", "o", "n", "I", "d">>,
   <<"d", "i", "s", "c", "u", "s", "s", "i", "o", "n", "i", "d", ",", "x">>,
   <<" ", "d", "i", "s", "c", "u", "s", "s", "i", "o", "n", "I", "d", " ", ",", "x">>,
   <<"x">>}

ExtractLines ==
  {<<>>,
   <<" ">>,
   <<"1">>,
   <<"1", ",", "2">>,
   <<",", "2">>,
   <<"\"", "1", ",", "2", "\"", ",", "3">>,
   <<"2", ",", "1">>}

ExtractTexts ==
  {join(<<h>> \o body, <<"\n">>) :
     h \in ExtractHeaders,
     body \in UNION {[1..n -> ExtractLines] : n \in 0..MaxDataLines}}

ExtractPath == FeedPath(Timestamps[1])

InitExtract ==
  /\ input \in [stored : {ExtractPath, BackupFeed}, text : ExtractTexts]
  /\ fs = [p \in {input.stored} |-> input.text]
  /\ runs = 0
  /\ argv = NoInvocation
  /\ exitCode = Unreported
  /\ ioLog = <<>>
  /\ stdout = NoOutput
  /\ result = <<>>
  /\ PollAtRest

CallExtractDiscussionIds ==
  /\ result = <<>>
  /\ result' = <<extractDiscussionIds(fs, ExtractPath)>>
  /\ UNCHANGED <<fs, runs, argv, exitCode, ioLog, stdout, input>>
  /\ UNCHANGED pollVars

NextExtract == CallExtractDiscussionIds

SpecExtract == InitExtract /\ [][NextExtract]_vars

\* The values at the first column named exactly discussionId of the
\* non-empty data lines of a text that reach that column; none when the text
\* has one line or no such column.
KeysOfText(text) ==
  LET lines == split(trim(text), "\n")
      cols  == {k \in 1..Len(parseCsvLine(lines[1])) :
                  parseCsvLine(lines[1])[k] = DiscussionIdHeader}
      data  == {i \in 2..Len(lines) :
                  /\ trim(lines[i]) # <<>>
                  /\ cols # {}
                  /\ Len(parseCsvLine(trim(lines[i]))) >= Min(cols)}
  IN  {parseCsvLine(trim(lines[i]))[Min(cols)] : i \in data}

\* C17: extractDiscussionIds returns a set in every case: the empty set when
\* the file cannot be read, when it has no data line, or when no column of
\* its header is named exactly discussionId; otherwise the values at the
\* position of that column in the non-empty data lines that reach it.
ExtractNeverFails ==
  Len(result) = 1 =>
    /\ Cardinality(Range(result[1])) = Len(result[1])
    /\ input.stored # ExtractPath => result[1] = <<>>
    /\ Len(split(trim(input.text), "\n")) <= 1 => result[1] = <<>>
    /\ indexOf(parseCsvLine(split(input.text, "\n")[1]), DiscussionIdHeader) = -1
         => result[1] = <<>>
    /\ input.stored = ExtractPath => Range(result[1]) = KeysOfText(input.text)

\* C17 witness: of the lines 1 and 1,2 under the header x,discussionId, the
\* first does not reach the column, and the set returned holds 2 alone.
ShortLineSkipped ==
  /\ input.stored = ExtractPath
  /\ input.text = <<"x", ",", "d", "i", "s", "c", "u", "s", "s", "i", "o", "n", "I", "d", "\n", "1", "\n", "1", ",", "2">>
  /\ result = << << <<"2">> >> >>

\* Whether the write of a removal report failed among the given calls.
ReportWriteFailed(calls) ==
  \E i \in 1..Len(calls) :
    calls[i].op = "write" /\ IsReportPath(calls[i].path) /\ ~calls[i].ok

\* C18: a run in which the write of the removal report fails still lists
\* every removed id, in the order of the previous snapshot, saves no report,
\* logs no error of the run and exits with status 0; the output it wrote is
\* the complete transformed feed, and no other file is created or changed.
ReportFailureNonFatal ==
  [][(runs' = runs + 1 /\ ReportWriteFailed(ioLog')) =>
       /\ exitCode' = 0
       /\ stdout'.error = None
       /\ stdout'.compared
       /\ ~stdout'.reportSaved
       /\ stdout'.listedIds # <<>>
       /\ stdout'.listedIds = RemovedInOrder(KeyColumn(fs'[stdout'.previousFeedPath]),
                                             KeyColumn(fs'[stdout'.outputFile]))
       /\ stdout'.removedCount = Len(stdout'.listedIds)
       /\ fs'[stdout'.outputFile]
            = join(<<join(OutputHeaders, <<",">>)>>
                     \o ExpectedLines(RowsOf(argv'.inputFile)), <<"\n">>)
       /\ DOMAIN fs' = DOMAIN fs \cup {stdout'.outputFile}
       /\ \A p \in DOMAIN fs : p # stdout'.outputFile => fs'[p] = fs[p]]_vars

\* C18 witness: the run lost the id 2 of the previous snapshot, the write of
\* its report failed, the id was listed and the run exited with status 0.
RemovedListedWithoutReport ==
  /\ runs > 0
  /\ ReportWriteFailed(ioLog)
  /\ exitCode = 0
  /\ stdout.listedIds = << <<"2">> >>
  /\ ~stdout.reportSaved
  /\ removedEntriesPath(stdout.outputFile) \notin DOMAIN fs

\* C19: after a run that wrote its output, the processed-row count of the
\* summary is the number of data rows of the output: its lines less the
\* header line.
ProcessedRowsAreRowsWritten ==
  (runs > 0 /\ exitCode = 0 /\ stdout.outputFile # NoPath) =>
    stdout.processedRows = Len(split(fs[stdout.outputFile], "\n")) - 1

\* ------------------------------------------------------- keys read back
\* The script is run once, without an output argument, on a feed of two data
\* lines under the header discussionid: a line over the alphabet of the codec
\* of at most MaxLineLen characters, then the line "a,a",a whose key holds a
\* comma.

QuotedKeyLine == <<"\"", "a", ",", "a", "\"", ",", "a">>

KeyFileText(line) == join(<<ExpectedHeaders[1], line, QuotedKeyLine>>, <<"\n">>)

InitKeys ==
  /\ input \in StringsUpTo(MaxLineLen)
  /\ fs = [p \in {InputBase} |-> KeyFileText(input)]
  /\ runs = 0
  /\ argv = NoInvocation
  /\ exitCode = Unreported
  /\ ioLog = <<>>
  /\ stdout = NoOutput
  /\ result = <<>>
  /\ PollAtRest

NextKeys ==
  MainOnce([inputFile |-> InputBase, outputFile |-> NoPath, fault |-> "none"])

SpecKeys == InitKeys /\ [][NextKeys]_vars

\* The discussionId values of the rows processCsvFile transforms from the
\* non-empty data lines of a feed.
TransformedKeys(text) ==
  LET lines == split(trim(text), "\n")
  IN  {transformRow(inputRowOf(parseCsvLine(trim(lines[i])),
                               parseCsvLine(lines[1]))).discussionId :
         i \in {j \in 2..Len(lines) : trim(lines[j]) # <<>>}}

\* C20: after a run, the set extractDiscussionIds returns for the output
\* just written is the set of the discussionId values of the transformed
\* rows, and the fields decoded from each line of the input, encoded with
\* toCsvLine and decoded again, are the same fields.
KeysSurviveReread ==
  runs > 0 =>
    /\ exitCode = 0
    /\ stdout.outputFile \in DOMAIN fs
    /\ Range(extractDiscussionIds(fs, stdout.outputFile))
         = TransformedKeys(fs[argv.inputFile])
    /\ \A line \in Range(split(fs[argv.inputFile], "\n")) :
         parseCsvLine(toCsvLine(parseCsvLine(line))) = parseCsvLine(line)

\* C20 witness: the key ,a of the quoted first line and the key a,a of the
\* second were read back from the output, commas included.
CommaKeysReadBack ==
  /\ runs > 0
  /\ input = <<"\"", ",", "a", "\"">>
  /\ Range(extractDiscussionIds(fs, stdout.outputFile))
       = {<<",", "a">>, <<"a", ",", "a">>}

\* The calls of a run that follow the listing of the directory: those of the
\* comparison.
CallsAfterLookup(calls) ==
  {i \in 1..Len(calls) : \E j \in 1..(i - 1) : calls[j].op = "readdir"}

\* C21: in every run, no file is deleted; every file named as a snapshot
\* other than the output of the run is left as it was, and the output is left
\* as processCsvFile wrote it; the one file the comparison writes is
\* <current-stem>-removed-entries.csv, whose name is not that of a snapshot;
\* and the previous snapshot looked up, like every file the comparison reads,
\* is named as a snapshot and is not a report.
DiffLeavesSnapshotsAlone ==
  [][runs' = runs + 1 =>
       /\ DOMAIN fs \subseteq DOMAIN fs'
       /\ \A p \in DOMAIN fs' :
            (IsFeedFileName(basename(p)) /\ p # stdout'.outputFile) =>
              p \in DOMAIN fs /\ fs'[p] = fs[p]
       /\ (exitCode' = 0 /\ stdout'.outputFile # NoPath) =>
            fs'[stdout'.outputFile]
              = join(<<join(OutputHeaders, <<",">>)>>
                       \o ExpectedLines(RowsOf(argv'.inputFile)), <<"\n">>)
       /\ \A i \in CallsAfterLookup(ioLog') :
            /\ ioLog'[i].op = "write" =>
                 /\ ioLog'[i].path = removedEntriesPath(stdout'.outputFile)
                 /\ ~IsFeedFileName(basename(ioLog'[i].path))
            /\ ioLog'[i].op = "read" =>
                 /\ IsFeedFileName(basename(ioLog'[i].path))
                 /\ ~IsReportPath(ioLog'[i].path)
       /\ stdout'.previousFeedPath # NoPath =>
            /\ IsFeedFileName(basename(stdout'.previousFeedPath))
            /\ ~IsReportPath(stdout'.previousFeedPath)]_vars

\* C21 witness: a run compared the feeds while the directory held a report
\* of an earlier run whose name sorts after that of the previous snapshot
\* found: the report was passed over.
ReportPassedOver ==
  /\ runs > 1
  /\ stdout.compared
  /\ ~stdout.reportSaved
  /\ removedEntriesPath(stdout.outputFile) \in DOMAIN fs
  /\ StringLess(basename(stdout.previousFeedPath),
                basename(removedEntriesPath(stdout.outputFile)))

\* ------------------------------------------------------ pollJobCompletion
\* One call of RedashQueryExecutor.pollJobCompletion(jobId, maxAttempts).
\* The server's answers are not the program's: each request draws its
\* outcome from Responses.

\* The job statuses: 1=PENDING, 2=STARTED, 3=SUCCESS, 4=FAILURE, 5=RETRY.
JobSuccess == 3

JobFailure == 4

JobPolling == {1, 2, 5}

\* A status that is none of the five.
JobUnknown == 6

\* job.result: undefined, the number 0, another number, an object with a
\* numeric id, an object without one.
JobResults == {"undefined", "zero", "number", "object", "objectNoId"}

\* What this.client.get(`/api/jobs/${jobId}`) gives: it throws, or it
\* resolves to a job.
Responses ==
  {[kind |-> "error", status |-> 0, result |-> "undefined"]}
    \cup {[kind |-> "job", status |-> st, result |-> "undefined"] :
            st \in JobPolling \cup {JobFailure, JobUnknown}}
    \cup {[kind |-> "job", status |-> JobSuccess, result |-> r] : r \in JobResults}

\* What a sleep and a getQueryResult record in place of a response.
NoResponse == [kind |-> "none", status |-> 0, result |-> "undefined"]

\* The error the switch of pollJobCompletion throws for a job, None if it
\* throws none.
JobError(job) ==
  IF job.status = JobSuccess
  THEN IF job.result \in {"undefined", "zero"}
       THEN "Job completed but no result available"
       ELSE IF job.result = "objectNoId"
       THEN "Invalid result ID received from job"
       ELSE None
  ELSE IF job.status = JobFailure THEN "Query execution failed"
  ELSE IF job.status \in JobPolling THEN None
  ELSE "Unknown job status"

InitPoll ==
  /\ AtRest
  /\ input = <<>>
  /\ result = <<>>
  /\ maxAttempts \in 0..MaxPolls
  /\ attempts = 0
  /\ pc = "while"
  /\ caught = None
  /\ requests = <<>>
  /\ outcome = None

\* The loop test holds: the job is requested and the switch is entered.
GetJob(response) ==
  /\ pc = "while"
  /\ attempts < maxAttempts
  /\ requests' = Append(requests, [op |-> "job", response |-> response])
  /\ IF response.kind = "error"
     THEN pc' = "catch" /\ caught' = "Request failed"
     ELSE IF JobError(response) # None
     THEN pc' = "catch" /\ caught' = JobError(response)
     ELSE IF response.status = JobSuccess
     THEN pc' = "getQueryResult" /\ caught' = None
     ELSE pc' = "sleep" /\ caught' = None
  /\ UNCHANGED <<maxAttempts, attempts, outcome>>
  /\ UNCHANGED <<fs, runs, argv, exitCode, ioLog, stdout, input, result>>

\* return await this.getQueryResult(resultId), inside the try block.
GetQueryResult(ok) ==
  /\ pc = "getQueryResult"
  /\ requests' = Append(requests, [op |-> "result", response |-> NoResponse])
  /\ IF ok
     THEN pc' = "done" /\ outcome' = "returned" /\ caught' = None
     ELSE pc' = "catch" /\ outcome' = outcome /\ caught' = "Failed to get query result"
  /\ UNCHANGED <<maxAttempts, attempts>>
  /\ UNCHANGED <<fs, runs, argv, exitCode, ioLog, stdout, input, result>>

\* The catch block: the error is thrown again at the last attempt only.
CatchError ==
  /\ pc = "catch"
  /\ IF attempts = maxAttempts - 1
     THEN pc' = "done" /\ outcome' = caught
     ELSE pc' = "sleep" /\ outcome' = outcome
  /\ UNCHANGED <<maxAttempts, attempts, caught, requests>>
  /\ UNCHANGED <<fs, runs, argv, exitCode, ioLog, stdout, input, result>>

\* A sleep that does not count the attempt (a faulty SleepThenCount).
SleepUncounted ==
  /\ pc = "sleep"
  /\ requests' = Append(requests, [op |-> "sleep", response |-> NoResponse])
  /\ pc' = "while"
  /\ caught' = None
  /\ UNCHANGED <<maxAttempts, attempts, outcome>>
  /\ UNCHANGED <<fs, runs, argv, exitCode, ioLog, stdout, input, result>>

\* await this.sleep(2000); attempts++ of the polling case and of the catch
\* block.
SleepThenCount ==
  /\ pc = "sleep"
  /\ requests' = Append(requests, [op |-> "sleep", response |-> NoResponse])
  /\ attempts' = attempts + 1
  /\ pc' = "while"
  /\ caught' = None
  /\ UNCHANGED <<maxAttempts, outcome>>
  /\ UNCHANGED <<fs, runs, argv, exitCode, ioLog, stdout, input, result>>

\* The loop test fails: throw new Error('Query execution timed out').
TimedOut ==
  /\ pc = "while"
  /\ ~(attempts < maxAttempts)
  /\ pc' = "done"
  /\ outcome' = "Query execution timed out"
  /\ UNCHANGED <<maxAttempts, attempts, caught, requests>>
  /\ UNCHANGED <<fs, runs, argv, exitCode, ioLog, stdout, input, result>>

NextPoll ==
  \/ \E response \in Responses : GetJob(response)
  \/ \E ok \in BOOLEAN : GetQueryResult(ok)
  \/ CatchError
  \/ SleepThenCount
  \/ TimedOut

SpecPoll == InitPoll /\ [][NextPoll]_vars

\* C22: once a poll has observed the status FAILURE, an unknown status, or
\* SUCCESS without a usable result id, the call sends no request and does no
\* sleep after it, and ends with the error of that observation.
JobErrorFailsImmediately ==
  \A i \in 1..Len(requests) :
    (/\ requests[i].op = "job"
     /\ requests[i].response.kind = "job"
     /\ JobError(requests[i].response) # None) =>
      /\ i = Len(requests)
      /\ pc = "done" => outcome = JobError(requests[i].response)

\* The call under the scheduling of the event loop: a step that can be taken
\* is taken (every request and sleep settles, axios with its timeout of 30
\* seconds).
SpecPollFair == SpecPoll /\ WF_vars(NextPoll)

\* The job-status requests sent so far.
JobRequests == {i \in 1..Len(requests) : requests[i].op = "job"}

\* Whether the call has ended as C23 allows.
EndedAsAllowed ==
  /\ outcome # None
  /\ outcome = "returned" =>
       /\ Len(requests) >= 2
       /\ requests[Len(requests)].op = "result"
       /\ requests[Len(requests) - 1].op = "job"
       /\ requests[Len(requests) - 1].response.kind = "job"
       /\ requests[Len(requests) - 1].response.status = JobSuccess
       /\ requests[Len(requests) - 1].response.result \in {"number", "object"}
  /\ outcome = "Query execution timed out" =>
       /\ Cardinality(JobRequests) = maxAttempts
       /\ maxAttempts > 0 =>
            /\ requests[Len(requests)].op = "sleep"
            /\ requests[Len(requests) - 1].op = "job"
            /\ requests[Len(requests) - 1].response.kind = "job"
            /\ requests[Len(requests) - 1].response.status \in JobPolling
  /\ outcome \notin {"returned", "Query execution timed out"} =>
       /\ attempts = maxAttempts - 1
       /\ outcome = caught

\* C23: every call of pollJobCompletion ends; it never sends more than
\* maxAttempts job-status requests; and it ends by returning the result
\* fetched right after a poll that observed SUCCESS with a usable result id,
\* by throwing the error of its last attempt, or by throwing 'Query execution
\* timed out' after maxAttempts polls, the last of which observed a job
\* still under way.
PollTerminates ==
  /\ <>(pc = "done")
  /\ [](Cardinality(JobRequests) <= maxAttempts)
  /\ [](pc = "done" <=> outcome # None)
  /\ [](pc = "done" => EndedAsAllowed)

\* C23 witness: with maxAttempts 3, a request failed, a poll observed
\* PENDING, the third poll observed SUCCESS and the result was fetched and
\* returned.
ReturnedAtLastAttempt ==
  /\ pc = "done"
  /\ outcome = "returned"
  /\ maxAttempts = 3
  /\ Cardinality(JobRequests) = 3
  /\ requests[1].response.kind = "error"
  /\ requests[3].response.status = 1

====
